---- MODULE Spec2Model ----
(***************************************************************************)
(* bkapi_client_core/client.py: RequestContextBuilder,                     *)
(* ResponseHeadersRepresenter and BaseClient.                              *)
(*                                                                         *)
(* Python values are tagged records: None, strings, dicts.  A dict is a    *)
(* TLA+ function whose DOMAIN is the set of keys present; an absent key is *)
(* a key outside the DOMAIN.                                               *)
(***************************************************************************)
EXTENDS Integers, Sequences, FiniteSets, TLC

VARIABLES
    bd,        \* RequestContextBuilder under test: inputs and result
    pr,        \* parse_response under test: the response and the result
    endpoint,  \* per client: BaseClient._endpoint
    reuse,     \* per client: BaseClient._reuse_session_connection
    pool,      \* the session: TRUE while it holds pooled connections
    pc,        \* per thread: position inside handle_request, or "idle"
    call,      \* per thread: the handle_request call in progress or last ended
    scope,     \* per client: open with-blocks, and the last __enter__/__exit__
    hr,        \* ResponseHeadersRepresenter under test: headers and results
    session,   \* the session's settings: auth and default headers
    sop        \* the last update_headers / update_bkapi_authorization call

vars == <<bd, pr, endpoint, reuse, pool, pc, call, scope, hr, session, sop>>

-----------------------------------------------------------------------------
(* Bounds *)

\* parameter values are 1..MaxVal
MaxVal == 2

\* headers given to one update_headers call
MaxHeaders == 2

\* with-blocks a caller nests on one client
MaxDepth == 2

-----------------------------------------------------------------------------
(* Python values *)

None == [t |-> "none"]
Str(s) == [t |-> "str", v |-> s]
Dict(f) == [t |-> "dict", v |-> f]

EmptyMap == [k \in {} |-> 0]

\* bool(x) for the values used here
Truthy(x) ==
    CASE x.t = "none" -> FALSE
      [] x.t = "str" -> x.v # ""
      [] x.t = "dict" -> DOMAIN x.v # {}

\* d.copy(); d.update(e)  (e wins on every key of e)
MapUpdate(d, e) ==
    [k \in DOMAIN d \cup DOMAIN e |-> IF k \in DOMAIN e THEN e[k] ELSE d[k]]

\* context[key] = value
MapSet(d, key, value) ==
    [k \in DOMAIN d \cup {key} |-> IF k = key THEN value ELSE d[k]]

\* a dict without some keys (keyword arguments bound to named parameters)
MapWithout(d, keys) == [k \in DOMAIN d \ keys |-> d[k]]

\* d.get(key, default)
MapGet(d, key, default) == IF key \in DOMAIN d THEN d[key] ELSE default

\* x or y
PyOr(x, y) == IF Truthy(x) THEN x ELSE y

\* all maps from a subset of keys to vals
Maps(keys, vals) == UNION {[s -> vals] : s \in SUBSET keys}

-----------------------------------------------------------------------------
(* RequestContextBuilder *)

Returned(v) == [ok |-> TRUE, value |-> v]
Raised(e) == [ok |-> FALSE, exc |-> e]

QueryMethods == {Str("GET"), Str("HEAD"), Str("OPTIONS")}

\* build_data with the merge the other way round: data wins over params
build_data_data_wins(context, data) ==
    IF ~Truthy(data) THEN Returned(context)
    ELSE IF "method" \notin DOMAIN context THEN Raised([type |-> "KeyError"])
    ELSE IF context["method"] \in QueryMethods
         THEN LET params == MapUpdate(
                                PyOr(MapGet(context, "params", None), Dict(EmptyMap)).v,
                                data.v)
              IN  Returned(MapSet(context, "params", Dict(params)))
         ELSE Returned(MapSet(context, "json", data))

\* build_data comparing the method without regard to case
build_data_any_case(context, data) ==
    IF ~Truthy(data) THEN Returned(context)
    ELSE IF "method" \notin DOMAIN context THEN Raised([type |-> "KeyError"])
    ELSE IF context["method"] \in QueryMethods \cup {Str("get")}
         THEN LET params == MapUpdate(data.v,
                                PyOr(MapGet(context, "params", None), Dict(EmptyMap)).v)
              IN  Returned(MapSet(context, "params", Dict(params)))
         ELSE Returned(MapSet(context, "json", data))

\* build_data returning early for None only, not for an empty dict
build_data_none_only(context, data) ==
    IF data = None THEN Returned(context)
    ELSE IF "method" \notin DOMAIN context THEN Raised([type |-> "KeyError"])
    ELSE IF context["method"] \in QueryMethods
         THEN LET params == MapUpdate(data.v,
                                PyOr(MapGet(context, "params", None), Dict(EmptyMap)).v)
              IN  Returned(MapSet(context, "params", Dict(params)))
         ELSE Returned(MapSet(context, "json", data))

\* build_data(context, data): the context after the call, or KeyError
build_data(context, data) ==
    IF ~Truthy(data) THEN Returned(context)
    ELSE IF "method" \notin DOMAIN context THEN Raised([type |-> "KeyError"])
    ELSE IF context["method"] \in QueryMethods
         THEN LET params == MapUpdate(data.v,
                                PyOr(MapGet(context, "params", None), Dict(EmptyMap)).v)
              IN  Returned(MapSet(context, "params", Dict(params)))
         ELSE Returned(MapSet(context, "json", data))

\* urljoin(endpoint, path) as the pair it joins
urljoin(ep, path) == [t |-> "url", base |-> ep, path |-> path]

\* build_url(context, endpoint, path)
build_url(context, ep, path) == MapSet(context, "url", urljoin(ep, path))

\* build_request_context(endpoint, data=None, path="", **request_context)
build_request_context(ep, data, path, request_context) ==
    build_data(build_url(request_context, ep, path), data)

\* build(endpoint, operation_context)
build(ep, operation_context) ==
    build_request_context(ep,
                          MapGet(operation_context, "data", None),
                          MapGet(operation_context, "path", Str("")).v,
                          MapWithout(operation_context, {"data", "path"}))

-----------------------------------------------------------------------------
(* RequestContextBuilder on objects: which dict each step writes to *)

\* a reference to a dict object; objs maps the name of an object to its content
Ref(id) == [t |-> "ref", id |-> id]

\* bool(x) for a value that may be a reference
TruthyIn(objs, x) == IF x.t = "ref" THEN DOMAIN objs[x.id] # {} ELSE Truthy(x)

\* a value as the caller holds it: dicts are objects, named after their key
AsObject(key, value) == IF value.t = "dict" THEN Ref(key) ELSE value

\* the objects of a call build(endpoint, operation_context): the operation
\* context, and the dicts it refers to (data, params, json)
ObjectsOf(context, data) ==
    LET oc == MapSet(context, "data", data)
    IN  ("operation_context" :> [k \in DOMAIN oc |-> AsObject(k, oc[k])])
        @@ [k \in {x \in DOMAIN oc : oc[x].t = "dict"} |-> oc[k].v]

\* objs with object id created or rebound to content
Store(objs, id, content) ==
    [i \in DOMAIN objs \cup {id} |-> IF i = id THEN content ELSE objs[i]]

\* build_data with `params = data` in place of `params = data.copy()`
build_data_objects_no_copy(objs, data) ==
    LET context == objs["request_context"]
    IN  IF ~TruthyIn(objs, data) THEN [ok |-> TRUE, objs |-> objs]
        ELSE IF "method" \notin DOMAIN context
        THEN [ok |-> FALSE, exc |-> [type |-> "KeyError"], objs |-> objs]
        ELSE IF context["method"] \in QueryMethods
        THEN LET given == MapGet(context, "params", None)
                 orig == IF TruthyIn(objs, given) THEN objs[given.id] ELSE EmptyMap
                 updated == Store(objs, data.id, MapUpdate(objs[data.id], orig))
             IN  [ok |-> TRUE,
                  objs |-> Store(updated, "request_context",
                                 MapSet(context, "params", data))]
        ELSE [ok |-> TRUE,
              objs |-> Store(objs, "request_context", MapSet(context, "json", data))]

\* build_data(context, data) on objects: context is the request_context object
build_data_objects(objs, data) ==
    LET context == objs["request_context"]
    IN  IF ~TruthyIn(objs, data) THEN [ok |-> TRUE, objs |-> objs]
        ELSE IF "method" \notin DOMAIN context
        THEN [ok |-> FALSE, exc |-> [type |-> "KeyError"], objs |-> objs]
        ELSE IF context["method"] \in QueryMethods
        THEN LET copied == Store(objs, "params_copy", objs[data.id])
                 given == MapGet(context, "params", None)
                 orig == IF TruthyIn(copied, given) THEN copied[given.id] ELSE EmptyMap
                 updated == Store(copied, "params_copy",
                                  MapUpdate(copied["params_copy"], orig))
             IN  [ok |-> TRUE,
                  objs |-> Store(updated, "request_context",
                                 MapSet(context, "params", Ref("params_copy")))]
        ELSE [ok |-> TRUE,
              objs |-> Store(objs, "request_context", MapSet(context, "json", data))]

\* build(endpoint, operation_context) on objects: **operation_context binds
\* data and path and collects the other keys in a new dict, request_context
build_objects(objs, ep) ==
    LET oc == objs["operation_context"]
        data == MapGet(oc, "data", None)
        path == MapGet(oc, "path", Str("")).v
        bound == Store(objs, "request_context", MapWithout(oc, {"data", "path"}))
        withUrl == Store(bound, "request_context",
                         build_url(bound["request_context"], ep, path))
    IN  build_data_objects(withUrl, data)

\* the content of a value, references followed
Resolve(objs, x) == IF x.t = "ref" THEN Dict(objs[x.id]) ELSE x

-----------------------------------------------------------------------------
(* ResponseHeadersRepresenter *)

\* CaseInsensitiveDict keeps one entry per lower-cased name
Lower(key) ==
    CASE key = "X-Bkapi-Error-Code" -> "x-bkapi-error-code"
      [] key = "X-Bkapi-Error-Message" -> "x-bkapi-error-message"
      [] key = "X-Bkapi-Request-Id" -> "x-bkapi-request-id"
      [] OTHER -> key

\* _get_header(key, default) on the wrapped headers (None or a header mapping)
_get_header(headers, key, default) ==
    IF ~Truthy(headers) THEN default ELSE MapGet(headers.v, Lower(key), default)

error_code(headers) == _get_header(headers, "X-Bkapi-Error-Code", "")
error_message(headers) == _get_header(headers, "X-Bkapi-Error-Message", "")
request_id(headers) == _get_header(headers, "X-Bkapi-Request-Id", "")

\* has_apigateway_error testing the presence of the header, not its value
has_apigateway_error_if_present(headers) ==
    Truthy(headers) /\ Lower("X-Bkapi-Error-Code") \in DOMAIN headers.v

\* bool(self.error_code)
has_apigateway_error(headers) == error_code(headers) # ""

\* __str__, as the tuple of the parts the format string joins
representer_str(headers) ==
    IF ~Truthy(headers) THEN <<>>
    ELSE <<"request_id: ", request_id(headers), ", error_code: ", error_code(headers),
           ", ", error_message(headers)>>

-----------------------------------------------------------------------------
(* Responses and exceptions *)

\* Response.raise_for_status(): HTTPError for 4xx and 5xx
raise_for_status(response) ==
    IF 400 <= response.status /\ response.status < 600
    THEN Raised([type |-> "HTTPError", status |-> response.status])
    ELSE Returned(None)

\* Response.json(): the decoded body, or the decoder's error
json_decode(body) ==
    CASE body = None -> Raised([type |-> "TypeError"])
      [] body = Str("{\"a\":1}") -> Returned(Dict([a |-> 1]))
      [] body = Str("{}") -> Returned(Dict(EmptyMap))
      [] body = Str("null") -> Returned(None)
      [] OTHER -> Raised([type |-> "JSONDecodeError"])

\* isinstance(exception, RequestException)
IsRequestException(exception) ==
    exception.type \in {"RequestException", "ConnectionError", "Timeout", "HTTPError",
                        "APIGatewayResponseError", "HTTPResponseError",
                        "JSONResponseError"}

\* _handle_exception logging the exception and returning None
_handle_exception_swallow(exception) == Returned(None)

\* _handle_exception(operation, context, exception): logs, then raises it
_handle_exception(exception) == Raised(exception)

\* _handle_response_content checking the status before the gateway header
_handle_response_content_status_first(response) ==
    IF response = None THEN Returned(None)
    ELSE IF ~raise_for_status(response).ok
    THEN Raised([type |-> "HTTPResponseError",
                 message |-> <<raise_for_status(response).exc.status>>,
                 response |-> response,
                 response_headers_representer |-> response.headers])
    ELSE IF has_apigateway_error(response.headers)
    THEN Raised([type |-> "APIGatewayResponseError",
                 message |-> <<"Request bkapi error, ", error_message(response.headers)>>,
                 response |-> response,
                 response_headers_representer |-> response.headers])
    ELSE IF ~json_decode(response.body).ok
    THEN Raised([type |-> "JSONResponseError",
                 message |-> <<"The response is not a valid JSON">>,
                 response |-> response,
                 response_headers_representer |-> response.headers])
    ELSE json_decode(response.body)

\* _handle_response_content without the raise_for_status step
_handle_response_content_no_status(response) ==
    IF response = None THEN Returned(None)
    ELSE IF has_apigateway_error(response.headers)
    THEN Raised([type |-> "APIGatewayResponseError",
                 message |-> <<"Request bkapi error, ", error_message(response.headers)>>,
                 response |-> response,
                 response_headers_representer |-> response.headers])
    ELSE IF ~json_decode(response.body).ok
    THEN Raised([type |-> "JSONResponseError",
                 message |-> <<"The response is not a valid JSON">>,
                 response |-> response,
                 response_headers_representer |-> response.headers])
    ELSE json_decode(response.body)

\* _handle_response_content letting the decoder's error through
_handle_response_content_no_except(response) ==
    IF response = None THEN Returned(None)
    ELSE IF has_apigateway_error(response.headers)
    THEN Raised([type |-> "APIGatewayResponseError",
                 message |-> <<"Request bkapi error, ", error_message(response.headers)>>,
                 response |-> response,
                 response_headers_representer |-> response.headers])
    ELSE IF ~raise_for_status(response).ok
    THEN Raised([type |-> "HTTPResponseError",
                 message |-> <<raise_for_status(response).exc.status>>,
                 response |-> response,
                 response_headers_representer |-> response.headers])
    ELSE json_decode(response.body)

\* _handle_response_content(operation, response)
_handle_response_content(response) ==
    IF response = None THEN Returned(None)
    ELSE IF has_apigateway_error(response.headers)
    THEN Raised([type |-> "APIGatewayResponseError",
                 message |-> <<"Request bkapi error, ", error_message(response.headers)>>,
                 response |-> response,
                 response_headers_representer |-> response.headers])
    ELSE IF ~raise_for_status(response).ok
    THEN Raised([type |-> "HTTPResponseError",
                 message |-> <<raise_for_status(response).exc.status>>,
                 response |-> response,
                 response_headers_representer |-> response.headers])
    ELSE IF ~json_decode(response.body).ok
    THEN IF json_decode(response.body).exc.type \in {"TypeError", "JSONDecodeError"}
         THEN Raised([type |-> "JSONResponseError",
                      message |-> <<"The response is not a valid JSON">>,
                      response |-> response,
                      response_headers_representer |-> response.headers])
         ELSE json_decode(response.body)
    ELSE json_decode(response.body)

\* parse_response(operation, response)
parse_response(response) ==
    LET r == _handle_response_content(response)
    IN  IF ~r.ok /\ IsRequestException(r.exc) THEN _handle_exception(r.exc) ELSE r

-----------------------------------------------------------------------------
(* Inputs of the builder and of parse_response *)

ParamKeys == {"a", "b"}
ParamMaps == Maps(ParamKeys, 1..MaxVal)

MethodValues == {Str("GET"), Str("HEAD"), Str("OPTIONS"), Str("POST"), Str("get")}

\* the data argument: None, the empty dict, or a dict of parameters
DataValues == {None} \cup {Dict(f) : f \in ParamMaps}

\* contexts: each of method, params, json and timeout present or absent
BuildContexts ==
    {m @@ p @@ j @@ x :
        m \in {EmptyMap} \cup {("method" :> v) : v \in MethodValues},
        p \in {EmptyMap, ("params" :> None)}
                 \cup {("params" :> Dict(f)) : f \in ParamMaps},
        j \in {EmptyMap, ("json" :> Dict([z |-> 0]))},
        x \in {EmptyMap, ("timeout" :> Str("5s"))}}

Statuses == {200, 204, 302, 404, 500}

Bodies == {Str("{\"a\":1}"), Str("{}"), Str("null"), Str("not-json"), Str(""), None}

\* response headers, stored under lower-cased names
HeaderMaps ==
    {c @@ m @@ r :
        c \in {EmptyMap, ("x-bkapi-error-code" :> ""), ("x-bkapi-error-code" :> "1000")},
        m \in {EmptyMap, ("x-bkapi-error-message" :> "invalid app")},
        r \in {EmptyMap, ("x-bkapi-request-id" :> "r1")}}

Responses ==
    {[t |-> "response", status |-> st, headers |-> Dict(h), body |-> b] :
        st \in Statuses, h \in HeaderMaps, b \in Bodies}

-----------------------------------------------------------------------------
(* State of the client, its session and its callers *)

Clients == {"c1", "c2"}
Threads == {"t1", "t2"}

NoCall ==
    [state |-> "none", client |-> "c1", operation |-> "op1", context |-> EmptyMap,
     hooked |-> Returned(EmptyMap), request |-> EmptyMap,
     transport |-> Returned(None), depth |-> 0, last |-> "none", events |-> <<>>,
     result |-> Returned(None)]

NoScope == [depth |-> 0, last |-> "none", events |-> <<>>, args |-> None]

BuilderIdle == bd = [phase |-> "idle", context |-> EmptyMap, data |-> None,
                     result |-> Returned(EmptyMap)]

ParserIdle == pr = [phase |-> "idle", response |-> None, result |-> Returned(None)]

RepresenterIdle == hr = [phase |-> "idle", headers |-> None]

\* a new Session: no auth, no default headers of interest, nothing called yet
SessionIdle ==
    /\ session = [auth |-> None, headers |-> EmptyMap]
    /\ sop = [op |-> "none", args |-> <<>>, before |-> None, result |-> Returned(None),
              recent |-> EmptyMap, nullGiven |-> FALSE]

ClientIdle ==
    /\ endpoint = [c \in Clients |-> "http://host/api/"]
    /\ reuse = [c \in Clients |-> FALSE]
    /\ pool = FALSE
    /\ pc = [t \in Threads |-> "idle"]
    /\ call = [t \in Threads |-> NoCall]
    /\ scope = [c \in Clients |-> NoScope]

clientVars == <<endpoint, reuse, pool, pc, call, scope>>

-----------------------------------------------------------------------------
(* RequestContextBuilder applied to every context and data *)

InitBuild ==
    /\ bd \in {[phase |-> "input", context |-> c, data |-> d,
                result |-> Returned(EmptyMap)] : c \in BuildContexts, d \in DataValues}
    /\ ParserIdle
    /\ RepresenterIdle
    /\ SessionIdle
    /\ ClientIdle

\* builder.build_data(context, data)
BuildData ==
    /\ bd.phase = "input"
    /\ bd' = [bd EXCEPT !.phase = "build_data",
                        !.result = build_data(bd.context, bd.data)]
    /\ UNCHANGED <<pr, hr, session, sop, clientVars>>

\* builder.build(endpoint, operation_context), data passed as a key of the context
Build ==
    /\ bd.phase = "input"
    /\ bd' = [bd EXCEPT !.phase = "build",
                        !.result = build("http://host/api/",
                                         MapSet(bd.context, "data", bd.data))]
    /\ UNCHANGED <<pr, hr, session, sop, clientVars>>

\* builder.build(endpoint, operation_context), dicts taken as objects
BuildObjects ==
    /\ bd.phase = "input"
    /\ bd' = [bd EXCEPT !.phase = "build_objects",
                        !.result = build_objects(ObjectsOf(bd.context, bd.data),
                                                 "http://host/api/")]
    /\ UNCHANGED <<pr, hr, session, sop, clientVars>>

NextBuild == BuildData \/ Build \/ BuildObjects

SpecBuild == InitBuild /\ [][NextBuild]_vars

-----------------------------------------------------------------------------
(* parse_response applied to every response *)

InitParse ==
    /\ pr \in {[phase |-> "input", response |-> r, result |-> Returned(None)] :
                 r \in Responses \cup {None}}
    /\ BuilderIdle
    /\ RepresenterIdle
    /\ SessionIdle
    /\ ClientIdle

\* client.parse_response(operation, response)
ParseResponse ==
    /\ pr.phase = "input"
    /\ pr' = [pr EXCEPT !.phase = "parsed", !.result = parse_response(pr.response)]
    /\ UNCHANGED <<bd, hr, session, sop, clientVars>>

NextParse == ParseResponse

SpecParse == InitParse /\ [][NextParse]_vars

-----------------------------------------------------------------------------
(* parse_response: the order of the classification *)

\* the response carries a non-empty X-Bkapi-Error-Code header
GatewayErrorHeader(response) ==
    /\ "x-bkapi-error-code" \in DOMAIN response.headers.v
    /\ response.headers.v["x-bkapi-error-code"] # ""

ErrorStatus(response) == response.status \in 400..599

Parsed == pr.phase = "parsed" /\ pr.response # None

\* C6: a response with a non-empty X-Bkapi-Error-Code header makes
\* parse_response raise APIGatewayResponseError carrying the response, whatever
\* the status and the body.
C6_GatewayErrorFirst ==
    (Parsed /\ GatewayErrorHeader(pr.response)) =>
        /\ ~pr.result.ok
        /\ pr.result.exc.type = "APIGatewayResponseError"
        /\ pr.result.exc.response = pr.response

\* a 404 with a valid JSON body and the gateway header set is a gateway error
C6_Witness ==
    /\ Parsed /\ GatewayErrorHeader(pr.response)
    /\ pr.response.status = 404
    /\ pr.response.body = Str("{\"a\":1}")
    /\ ~pr.result.ok /\ pr.result.exc.type = "APIGatewayResponseError"

\* C7: a response without a non-empty X-Bkapi-Error-Code header and with a 4xx
\* or 5xx status makes parse_response raise HTTPResponseError carrying the
\* response, whether or not the body is valid JSON.
C7_HttpErrorStatus ==
    (Parsed /\ ~GatewayErrorHeader(pr.response) /\ ErrorStatus(pr.response)) =>
        /\ ~pr.result.ok
        /\ pr.result.exc.type = "HTTPResponseError"
        /\ pr.result.exc.response = pr.response

\* a 500 with a valid JSON body and an empty error-code header
C7_Witness ==
    /\ Parsed /\ ErrorStatus(pr.response)
    /\ "x-bkapi-error-code" \in DOMAIN pr.response.headers.v
    /\ ~GatewayErrorHeader(pr.response)
    /\ pr.response.body = Str("{\"a\":1}")
    /\ ~pr.result.ok /\ pr.result.exc.type = "HTTPResponseError"

\* C8: a response without gateway error header and with a non-error status
\* gives the decoded body when the body decodes, and JSONResponseError carrying
\* the response when it does not; nothing else.
C8_DecodeOrJsonError ==
    (Parsed /\ ~GatewayErrorHeader(pr.response) /\ ~ErrorStatus(pr.response)) =>
        IF json_decode(pr.response.body).ok
        THEN pr.result.ok /\ pr.result.value = json_decode(pr.response.body).value
        ELSE /\ ~pr.result.ok
             /\ pr.result.exc.type = "JSONResponseError"
             /\ pr.result.exc.response = pr.response

\* a 200 whose body is not JSON ends in JSONResponseError
C8_Witness ==
    /\ Parsed /\ ~GatewayErrorHeader(pr.response)
    /\ pr.response.status = 200
    /\ pr.response.body = Str("not-json")
    /\ ~pr.result.ok /\ pr.result.exc.type = "JSONResponseError"

-----------------------------------------------------------------------------
(* build_data: where the data goes *)

BuiltData == bd.phase = "build_data" /\ Truthy(bd.data)

HasQueryMethod(context) ==
    /\ "method" \in DOMAIN context
    /\ context["method"].v \in {"GET", "HEAD", "OPTIONS"}

HasBodyMethod(context) ==
    /\ "method" \in DOMAIN context
    /\ context["method"].v \notin {"GET", "HEAD", "OPTIONS"}

\* the params the context came with, as a map (none when absent or None)
OriginalParams(context) ==
    IF "params" \in DOMAIN context /\ context["params"].t = "dict"
    THEN context["params"].v
    ELSE EmptyMap

\* key k is absent from both, or present in both with the same value
SameKey(before, after, k) ==
    /\ (k \in DOMAIN after) = (k \in DOMAIN before)
    /\ k \in DOMAIN before => after[k] = before[k]

\* C9: with non-empty data and method GET, HEAD or OPTIONS, build_data sets
\* params to data merged with the original params, the original params winning
\* on every shared key, and leaves the json key as it was.
C9_QueryDataIntoParams ==
    (BuiltData /\ HasQueryMethod(bd.context)) =>
        /\ bd.result.ok
        /\ "params" \in DOMAIN bd.result.value
        /\ bd.result.value["params"].t = "dict"
        /\ LET params == bd.result.value["params"].v
               orig == OriginalParams(bd.context)
           IN  /\ DOMAIN params = DOMAIN bd.data.v \cup DOMAIN orig
               /\ \A k \in DOMAIN orig : params[k] = orig[k]
               /\ \A k \in DOMAIN bd.data.v \ DOMAIN orig : params[k] = bd.data.v[k]
        /\ SameKey(bd.context, bd.result.value, "json")

\* data and params disagree on a key, and the context had a json key
C9_Witness ==
    /\ BuiltData /\ HasQueryMethod(bd.context)
    /\ \E k \in DOMAIN bd.data.v \cap DOMAIN OriginalParams(bd.context) :
          bd.data.v[k] # OriginalParams(bd.context)[k]
    /\ \E k \in DOMAIN bd.data.v : k \notin DOMAIN OriginalParams(bd.context)
    /\ "json" \in DOMAIN bd.context
    /\ bd.result.ok

\* C10: with non-empty data and a method other than GET, HEAD or OPTIONS,
\* build_data sets json to data and leaves params as it was.
C10_BodyDataIntoJson ==
    (BuiltData /\ HasBodyMethod(bd.context)) =>
        /\ bd.result.ok
        /\ "json" \in DOMAIN bd.result.value
        /\ bd.result.value["json"] = bd.data
        /\ SameKey(bd.context, bd.result.value, "params")

\* a POST with params present and a json key that the data replaces
C10_Witness ==
    /\ BuiltData /\ HasBodyMethod(bd.context)
    /\ bd.context["method"] = Str("POST")
    /\ "params" \in DOMAIN bd.context /\ Truthy(bd.context["params"])
    /\ "json" \in DOMAIN bd.context /\ bd.context["json"] # bd.data
    /\ bd.result.ok /\ bd.result.value["json"] = bd.data

-----------------------------------------------------------------------------
(* BaseClient: handle_request, __enter__, __exit__, close *)

Endpoints == {"", "http://host/api/"}
Operations == {"op1", "op2"}

\* operation contexts the callers pass to handle_request
CallContexts ==
    {[method |-> Str("GET"), path |-> Str("/users/"), data |-> Dict([a |-> 1])],
     [method |-> Str("POST"), data |-> Dict([a |-> 1])],
     [method |-> Str("GET")],
     [data |-> Dict([a |-> 1])]}

\* session.dispatch_hook(HANDLE_REQUEST_CONTEXT, context, operation=operation):
\* the hooks return the context, return another one, or one of them raises
HookOutcomes(context) ==
    {Returned(context),
     Returned(MapSet(context, "headers", Dict([token |-> 1]))),
     Raised([type |-> "HookError"])}

OkResponse ==
    [t |-> "response", status |-> 200, headers |-> Dict(EmptyMap),
     body |-> Str("{\"a\":1}")]

ErrorResponse ==
    [t |-> "response", status |-> 500,
     headers |-> Dict("x-bkapi-error-code" :> "1000"), body |-> Str("not-json")]

\* session.handle(**request_context): a response, a RequestException, or
\* another exception
TransportOutcomes ==
    {Returned(OkResponse), Returned(ErrorResponse),
     Raised([type |-> "ConnectionError", response |-> None]),
     Raised([type |-> "HTTPError", response |-> ErrorResponse]),
     Raised([type |-> "RuntimeError"])}

\* _get_request_context without the endpoint check
_get_request_context_unchecked(ep, context) == build(ep, context)

\* _get_request_context(operation, context)
_get_request_context(ep, context) ==
    IF ~Truthy(Str(ep)) THEN Raised([type |-> "EndpointNotSetError"])
    ELSE build(ep, context)

\* _handle_response(operation, context, response): logs, returns the response
_handle_response(response) == Returned(response)

\* the try/except of handle_request around an outcome of its try block
TryExcept(outcome) ==
    IF outcome.ok THEN outcome
    ELSE IF IsRequestException(outcome.exc) THEN _handle_exception(outcome.exc)
    ELSE outcome

\* BaseClient.close(): session.close() releases the pooled connections
close(events) == Append(events, "close")

Count(events, e) == Cardinality({i \in DOMAIN events : events[i] = e})

InitClient ==
    /\ endpoint \in {[c \in Clients |-> e] : e \in Endpoints}
    /\ reuse = [c \in Clients |-> FALSE]
    /\ pool = FALSE
    /\ pc = [t \in Threads |-> "idle"]
    /\ call = [t \in Threads |-> NoCall]
    /\ scope = [c \in Clients |-> NoScope]

Init == InitClient /\ BuilderIdle /\ ParserIdle /\ RepresenterIdle /\ SessionIdle

\* __enter__
Enter(t, c) ==
    /\ pc[t] = "idle"
    /\ scope[c].depth < MaxDepth
    /\ reuse' = [reuse EXCEPT ![c] = TRUE]
    /\ scope' = [scope EXCEPT ![c] = [depth |-> @.depth + 1, last |-> "enter",
                                      events |-> <<>>, args |-> None]]
    /\ UNCHANGED <<bd, pr, hr, session, sop, endpoint, pool, pc, call>>

\* __exit__(*args), args being None or the exception that leaves the block
Exit(t, c, args) ==
    /\ pc[t] = "idle"
    /\ scope[c].depth > 0
    /\ reuse' = [reuse EXCEPT ![c] = FALSE]
    /\ pool' = FALSE
    /\ scope' = [scope EXCEPT ![c] = [depth |-> @.depth - 1, last |-> "exit",
                                      events |-> close(<<>>), args |-> args]]
    /\ UNCHANGED <<bd, pr, hr, session, sop, endpoint, pc, call>>

\* the exception a with-block may be left with: that of the thread's last call
LeavingWith(t) ==
    {None} \cup (IF call[t].state = "ended" /\ ~call[t].result.ok
                 THEN {call[t].result.exc} ELSE {})

\* handle_request, up to the hook dispatch in front of the try block
HandleRequest(t, c, operation, context, hooked) ==
    /\ pc[t] = "idle"
    /\ call' = [call EXCEPT ![t] =
                  [state |-> IF hooked.ok THEN "running" ELSE "ended",
                   client |-> c, operation |-> operation, context |-> context,
                   hooked |-> hooked, request |-> EmptyMap,
                   transport |-> Returned(None),
                   depth |-> scope[c].depth, last |-> scope[c].last,
                   events |-> <<"hook">>,
                   result |-> IF hooked.ok THEN Returned(None) ELSE hooked]]
    /\ pc' = [pc EXCEPT ![t] = IF hooked.ok THEN "try" ELSE "idle"]
    /\ UNCHANGED <<bd, pr, hr, session, sop, endpoint, reuse, pool, scope>>

\* the try block building the request from the context the caller passed
GetRequestContextOfCaller(t) ==
    /\ pc[t] = "try"
    /\ LET c == call[t].client
           rc == _get_request_context(endpoint[c], call[t].context)
       IN  IF rc.ok
           THEN /\ call' = [call EXCEPT ![t].request = rc.value,
                                        ![t].events = @ \o <<"get_request_context", "handle">>]
                /\ pool' = TRUE
                /\ pc' = [pc EXCEPT ![t] = "handle"]
           ELSE /\ call' = [call EXCEPT ![t].result = TryExcept(rc),
                                        ![t].events = Append(@, "get_request_context")]
                /\ pc' = [pc EXCEPT ![t] = "finally"]
                /\ UNCHANGED pool
    /\ UNCHANGED <<bd, pr, hr, session, sop, endpoint, reuse, scope>>

\* the try block up to session.handle: _get_request_context, then the request
\* is handed to the session
GetRequestContext(t) ==
    /\ pc[t] = "try"
    /\ LET c == call[t].client
           rc == _get_request_context(endpoint[c], call[t].hooked.value)
       IN  IF rc.ok
           THEN /\ call' = [call EXCEPT ![t].request = rc.value,
                                        ![t].events = @ \o <<"get_request_context", "handle">>]
                /\ pool' = TRUE
                /\ pc' = [pc EXCEPT ![t] = "handle"]
           ELSE /\ call' = [call EXCEPT ![t].result = TryExcept(rc),
                                        ![t].events = Append(@, "get_request_context")]
                /\ pc' = [pc EXCEPT ![t] = "finally"]
                /\ UNCHANGED pool
    /\ UNCHANGED <<bd, pr, hr, session, sop, endpoint, reuse, scope>>

\* session.handle issued again after a RequestException
SessionHandleRetry(t, outcome) ==
    /\ pc[t] = "handle"
    /\ IF ~outcome.ok /\ IsRequestException(outcome.exc)
       THEN /\ call' = [call EXCEPT ![t].transport = outcome,
                                    ![t].events = @ \o <<"handled", "handle">>]
            /\ UNCHANGED pc
       ELSE /\ call' = [call EXCEPT ![t].transport = outcome,
                                    ![t].events = Append(@, "handled"),
                                    ![t].result = IF outcome.ok
                                                  THEN _handle_response(outcome.value)
                                                  ELSE TryExcept(outcome)]
            /\ pc' = [pc EXCEPT ![t] = "finally"]
    /\ UNCHANGED <<bd, pr, hr, session, sop, endpoint, reuse, pool, scope>>

\* session.handle ends; _handle_response or the except clause
SessionHandle(t, outcome) ==
    /\ pc[t] = "handle"
    /\ call' = [call EXCEPT ![t].transport = outcome,
                            ![t].events = Append(@, "handled"),
                            ![t].result = IF outcome.ok
                                          THEN _handle_response(outcome.value)
                                          ELSE TryExcept(outcome)]
    /\ pc' = [pc EXCEPT ![t] = "finally"]
    /\ UNCHANGED <<bd, pr, hr, session, sop, endpoint, reuse, pool, scope>>

\* handle_request without the finally block
FinallyNoClose(t) ==
    /\ pc[t] = "finally"
    /\ call' = [call EXCEPT ![t].state = "ended"]
    /\ pc' = [pc EXCEPT ![t] = "idle"]
    /\ UNCHANGED <<bd, pr, hr, session, sop, endpoint, reuse, pool, scope>>

\* the finally block of handle_request closing whatever the flag
FinallyAlways(t) ==
    /\ pc[t] = "finally"
    /\ call' = [call EXCEPT ![t].events = close(@), ![t].state = "ended"]
    /\ pool' = FALSE
    /\ pc' = [pc EXCEPT ![t] = "idle"]
    /\ UNCHANGED <<bd, pr, hr, session, sop, endpoint, reuse, scope>>

\* the finally block of handle_request, then the call returns or raises
Finally(t) ==
    /\ pc[t] = "finally"
    /\ IF ~reuse[call[t].client]
       THEN /\ call' = [call EXCEPT ![t].events = close(@), ![t].state = "ended"]
            /\ pool' = FALSE
       ELSE /\ call' = [call EXCEPT ![t].state = "ended"]
            /\ UNCHANGED pool
    /\ pc' = [pc EXCEPT ![t] = "idle"]
    /\ UNCHANGED <<bd, pr, hr, session, sop, endpoint, reuse, scope>>

\* one caller and one client
MainThreads == {"t1"}
MainClients == {"c1"}

Next ==
    \E t \in MainThreads, c \in MainClients :
        \/ Enter(t, c)
        \/ \E args \in LeavingWith(t) : Exit(t, c, args)
        \/ \E operation \in Operations, context \in CallContexts :
              \E hooked \in HookOutcomes(context) :
                 HandleRequest(t, c, operation, context, hooked)
        \/ GetRequestContext(t)
        \/ \E outcome \in TransportOutcomes : SessionHandle(t, outcome)
        \/ Finally(t)

Spec == Init /\ [][Next]_vars

-----------------------------------------------------------------------------
(* handle_request and the session's connections *)

Ended(t) == call[t].state = "ended"

Closes(t) == Count(call[t].events, "close")

\* the call reached session.handle and session.handle has ended
TransportEnded(t) ==
    /\ Count(call[t].events, "handle") = 1
    /\ Count(call[t].events, "handled") = 1

\* the call reached the endpoint check and the endpoint is not set
EndpointNotSet(t) == call[t].hooked.ok /\ endpoint[call[t].client] = ""

\* C1: a handle_request call made outside a reuse scope that ends with a
\* response, with a RequestException or another exception of the transport, or
\* with the endpoint not set, invokes session.close exactly once, as its last
\* step, after the transport call (if any) has ended.
C1_CloseOnceOutsideScope ==
    \A t \in Threads :
        (Ended(t) /\ call[t].depth = 0 /\ (TransportEnded(t) \/ EndpointNotSet(t))) =>
            /\ Closes(t) = 1
            /\ call[t].events[Len(call[t].events)] = "close"
            /\ Count(call[t].events, "handle") = Count(call[t].events, "handled")

\* outside any scope the transport raised an exception that is no
\* RequestException, and the call closed the session once
C1_Witness ==
    /\ Ended("t1") /\ call["t1"].depth = 0 /\ TransportEnded("t1")
    /\ ~call["t1"].transport.ok
    /\ ~IsRequestException(call["t1"].transport.exc)
    /\ ~call["t1"].result.ok
    /\ Closes("t1") = 1

\* C2: handle_request calls made between an __enter__ and its __exit__ do not
\* invoke session.close, whether they return or raise, and __exit__ invokes it
\* exactly once, also when it is given the exception that leaves the scope.
C2_CloseOnlyOnExit ==
    /\ \A t \in Threads :
          (call[t].state # "none" /\ call[t].last = "enter") => Closes(t) = 0
    /\ \A c \in Clients :
          scope[c].last = "exit" => Count(scope[c].events, "close") = 1

\* a call inside the scope raised the transport's exception without closing,
\* and the scope was left with that exception: __exit__ closed once
C2_Witness ==
    /\ Ended("t1") /\ call["t1"].last = "enter" /\ TransportEnded("t1")
    /\ ~call["t1"].result.ok
    /\ Closes("t1") = 0
    /\ scope["c1"].last = "exit"
    /\ scope["c1"].args = call["t1"].result.exc
    /\ scope["c1"].events = <<"close">>
    /\ ~pool

\* C3: outside a reuse scope handle_request invokes session.close on every
\* exit path of the call, the path where the hook dispatch raises and the path
\* where building the request context raises included.
C3_CloseOnEveryExitPath ==
    \A t \in Threads : (Ended(t) /\ call[t].depth = 0) => Closes(t) = 1

\* C4 as stated: with an empty endpoint the call raises EndpointNotSetError and
\* session.handle is not invoked.
C4_EndpointNotSetRaised ==
    \A t \in Threads :
        (Ended(t) /\ endpoint[call[t].client] = "") =>
            /\ ~call[t].result.ok
            /\ call[t].result.exc.type = "EndpointNotSetError"
            /\ Count(call[t].events, "handle") = 0

\* C4, amended: with an empty endpoint session.handle is not invoked, and the
\* call raises EndpointNotSetError unless the hook dispatch raised first, in
\* which case it raises the hook's exception.
C4_EndpointNotSetAfterHook ==
    \A t \in Threads :
        (call[t].state # "none" /\ endpoint[call[t].client] = "") =>
            /\ Count(call[t].events, "handle") = 0
            /\ Ended(t) =>
                  call[t].result = IF call[t].hooked.ok
                                   THEN Raised([type |-> "EndpointNotSetError"])
                                   ELSE call[t].hooked

\* the hook returned, the endpoint is empty: EndpointNotSetError, no transport
C4_Witness ==
    /\ Ended("t1") /\ EndpointNotSet("t1")
    /\ call["t1"].result = Raised([type |-> "EndpointNotSetError"])
    /\ Count(call["t1"].events, "handle") = 0

\* C5: when session.handle raises a RequestException the call ends by raising
\* that same exception: no value is returned, no other exception is raised.
C5_TransportErrorReraised ==
    \A t \in Threads :
        (Ended(t) /\ TransportEnded(t) /\ ~call[t].transport.ok
            /\ IsRequestException(call[t].transport.exc)) =>
            /\ ~call[t].result.ok
            /\ call[t].result.exc = call[t].transport.exc

\* the transport raised an HTTPError carrying a response; the call raised it
C5_Witness ==
    /\ Ended("t1") /\ TransportEnded("t1")
    /\ call["t1"].transport = Raised([type |-> "HTTPError", response |-> ErrorResponse])
    /\ call["t1"].result = call["t1"].transport

-----------------------------------------------------------------------------
(* build_data without data *)

\* C11: with data None or empty, build_data leaves every key of the context
\* as it was, for every method and also for a context without a method key.
C11_NoDataNoChange ==
    (bd.phase = "build_data" /\ ~Truthy(bd.data)) =>
        /\ bd.result.ok
        /\ DOMAIN bd.result.value = DOMAIN bd.context
        /\ \A k \in DOMAIN bd.context \cup {"method", "params", "json"} :
              SameKey(bd.context, bd.result.value, k)

\* an empty dict as data, a context with neither method nor params nor json
C11_Witness ==
    /\ bd.phase = "build_data"
    /\ bd.data = Dict(EmptyMap)
    /\ {"method", "params", "json"} \cap DOMAIN bd.context = {}
    /\ bd.result = Returned(bd.context)

-----------------------------------------------------------------------------
(* build and the caller's dicts *)

BuiltObjects == bd.phase = "build_objects"

\* the request context that build returns, references followed
BuiltContext ==
    [k \in DOMAIN bd.result.objs["request_context"] |->
        Resolve(bd.result.objs, bd.result.objs["request_context"][k])]

\* build on objects returns what build on values returns
BuildObjectsAgree ==
    BuiltObjects =>
        LET r == build("http://host/api/", MapSet(bd.context, "data", bd.data))
        IN  /\ bd.result.ok = r.ok
            /\ r.ok => BuiltContext = r.value

\* C12: build does not change what the caller passed in: after build the
\* operation context, the data dict and the original params dict (and every
\* other dict the context refers to) hold what they held before.
C12_BuildLeavesInputs ==
    BuiltObjects =>
        \A id \in DOMAIN ObjectsOf(bd.context, bd.data) :
            /\ id \in DOMAIN bd.result.objs
            /\ bd.result.objs[id] = ObjectsOf(bd.context, bd.data)[id]

\* a GET whose data and params disagree: the merge went to a new dict, and the
\* params of the result differ from both dicts the caller passed
C12_Witness ==
    /\ BuiltObjects /\ bd.result.ok
    /\ HasQueryMethod(bd.context)
    /\ Truthy(bd.data) /\ Truthy(MapGet(bd.context, "params", None))
    /\ bd.result.objs["request_context"]["params"] = Ref("params_copy")
    /\ bd.result.objs["params_copy"] # bd.data.v
    /\ bd.result.objs["params_copy"] # bd.context["params"].v
    /\ bd.result.objs["data"] = bd.data.v
    /\ bd.result.objs["params"] = bd.context["params"].v

-----------------------------------------------------------------------------
(* ResponseHeadersRepresenter applied to every header mapping *)

\* the wrapped headers: None, or a mapping with any of the three gateway
\* headers (empty or not) and any other header
WrappedHeaders ==
    {None} \cup
    {Dict(c @@ m @@ r @@ x) :
        c \in {EmptyMap, ("x-bkapi-error-code" :> ""), ("x-bkapi-error-code" :> "1000")},
        m \in {EmptyMap, ("x-bkapi-error-message" :> ""),
               ("x-bkapi-error-message" :> "invalid app")},
        r \in {EmptyMap, ("x-bkapi-request-id" :> ""), ("x-bkapi-request-id" :> "r1")},
        x \in {EmptyMap, ("content-type" :> "application/json")}}

InitHeaders ==
    /\ hr \in {[phase |-> "wrapped", headers |-> h] : h \in WrappedHeaders}
    /\ BuilderIdle
    /\ ParserIdle
    /\ SessionIdle
    /\ ClientIdle

\* ResponseHeadersRepresenter(headers): every property and str() read once
ReadHeaders ==
    /\ hr.phase = "wrapped"
    /\ hr' = [phase |-> "read", headers |-> hr.headers,
              error_code |-> error_code(hr.headers),
              error_message |-> error_message(hr.headers),
              request_id |-> request_id(hr.headers),
              has_apigateway_error |-> has_apigateway_error(hr.headers),
              str |-> representer_str(hr.headers)]
    /\ UNCHANGED <<bd, pr, session, sop, clientVars>>

NextHeaders == ReadHeaders

SpecHeaders == InitHeaders /\ [][NextHeaders]_vars

\* the mapping is absent or has no entry
NoHeaders(headers) == headers = None \/ headers.v = EmptyMap

\* the mapping holds the header with a non-empty value
HeaderSet(headers, name) ==
    /\ headers # None
    /\ name \in DOMAIN headers.v
    /\ headers.v[name] # ""

\* C13: has_apigateway_error is true exactly when X-Bkapi-Error-Code is
\* present with a non-empty value; with an absent or empty mapping it is false,
\* the three accessors give the empty string and str() gives the empty string.
C13_GatewayErrorIffCode ==
    hr.phase = "read" =>
        /\ hr.has_apigateway_error = HeaderSet(hr.headers, "x-bkapi-error-code")
        /\ NoHeaders(hr.headers) =>
              /\ ~hr.has_apigateway_error
              /\ hr.error_code = "" /\ hr.error_message = "" /\ hr.request_id = ""
              /\ hr.str = <<>>

\* the error-code header is present but empty, beside a non-empty message:
\* no gateway error
C13_Witness ==
    /\ hr.phase = "read"
    /\ hr.headers # None
    /\ "x-bkapi-error-code" \in DOMAIN hr.headers.v
    /\ hr.headers.v["x-bkapi-error-code"] = ""
    /\ HeaderSet(hr.headers, "x-bkapi-error-message")
    /\ ~hr.has_apigateway_error
    /\ hr.error_message = "invalid app"

-----------------------------------------------------------------------------
(* BaseClient: update_headers and update_bkapi_authorization *)

\* CaseInsensitiveDict: one entry per lower-cased name, holding the name as it
\* was last written and the value
LowerName(name) ==
    CASE name = "X-Token" -> "x-token"
      [] name = "Accept" -> "accept"
      [] OTHER -> Lower(name)

\* CaseInsensitiveDict.update(pairs), the pairs taken in order
RECURSIVE CIUpdate(_, _)
CIUpdate(store, pairs) ==
    IF pairs = <<>> THEN store
    ELSE CIUpdate(MapSet(store, LowerName(pairs[1][1]),
                         [key |-> pairs[1][1], value |-> pairs[1][2]]),
                  Tail(pairs))

\* merge_setting with the session's headers winning over the given ones
merge_setting_session_wins(request_setting, session_setting) ==
    LET merged == MapUpdate(CIUpdate(EmptyMap, request_setting), session_setting)
    IN  MapWithout(merged, {k \in DOMAIN merged : merged[k].value = None})

\* requests.sessions.merge_setting(request_setting, session_setting,
\* dict_class=CaseInsensitiveDict): the session's entries, updated with the
\* given ones, entries whose value is None removed
merge_setting(request_setting, session_setting) ==
    LET merged == CIUpdate(session_setting, request_setting)
    IN  MapWithout(merged, {k \in DOMAIN merged : merged[k].value = None})

\* update_headers(headers)
update_headers(s, headers) == [s EXCEPT !.headers = merge_setting(headers, s.headers)]

\* BKApiAuthorization(): a new authorization object without fields
NewAuthorization == [t |-> "BKApiAuthorization", id |-> "created", fields |-> EmptyMap]

\* BKApiAuthorization.update(auth): the object's fields updated with the given
bkapi_auth_update(authorization, auth) ==
    [authorization EXCEPT !.fields = MapUpdate(@, auth)]

\* bool(session.auth): None is false, an authorization object is true
TruthyAuth(a) == a # None

\* update_bkapi_authorization always attaching a new BKApiAuthorization
update_bkapi_authorization_replace(s, auth) ==
    IF TruthyAuth(s.auth) /\ s.auth.t # "BKApiAuthorization"
    THEN [result |-> Raised([type |-> "TypeError"]), session |-> s]
    ELSE [result |-> Returned(None),
          session |-> [s EXCEPT !.auth = bkapi_auth_update(NewAuthorization, auth)]]

\* update_bkapi_authorization(**auth): the result and the session after it
update_bkapi_authorization(s, auth) ==
    IF TruthyAuth(s.auth) /\ s.auth.t # "BKApiAuthorization"
    THEN [result |-> Raised([type |-> "TypeError"]), session |-> s]
    ELSE LET held == IF ~TruthyAuth(s.auth) THEN NewAuthorization ELSE s.auth
         IN  [result |-> Returned(None),
              session |-> [s EXCEPT !.auth = bkapi_auth_update(held, auth)]]

HeaderNames == {"X-Token", "x-token", "Accept"}
HeaderValues == {Str("v1"), Str("v2"), None}

\* the headers of one call, in the order of the dict: distinct names
HeaderLists ==
    {l \in UNION {[1..n -> HeaderNames \X HeaderValues] : n \in 0..MaxHeaders} :
        \A i, j \in DOMAIN l : i # j => l[i][1] # l[j][1]}

AuthKeys == {"bk_app_code", "bk_token"}
AuthFields == Maps(AuthKeys, {"v1", "v2"})

\* what a session may hold as auth before the client touches it
InitialAuths ==
    {None, [t |-> "HTTPBasicAuth", id |-> "given"]}
    \cup {[t |-> "BKApiAuthorization", id |-> "given", fields |-> f] : f \in AuthFields}

NoSessionCall ==
    [op |-> "none", args |-> <<>>, before |-> None, result |-> Returned(None),
     recent |-> EmptyMap, nullGiven |-> FALSE]

\* requests' default headers of a new Session, those of interest here
DefaultHeaders == ("accept" :> [key |-> "Accept", value |-> Str("*/*")])

InitSession ==
    /\ session = [auth |-> None, headers |-> DefaultHeaders]
    /\ sop = NoSessionCall
    /\ BuilderIdle
    /\ ParserIdle
    /\ RepresenterIdle
    /\ ClientIdle

InitAuth ==
    /\ session \in {[auth |-> a, headers |-> DefaultHeaders] : a \in InitialAuths}
    /\ sop = NoSessionCall
    /\ BuilderIdle
    /\ ParserIdle
    /\ RepresenterIdle
    /\ ClientIdle

\* the values a call gave for each name, names lower-cased
GivenBy(headers) ==
    [n \in {LowerName(headers[i][1]) : i \in DOMAIN headers} |->
        {headers[i][2] : i \in {j \in DOMAIN headers : LowerName(headers[j][1]) = n}}]

\* client.update_headers(headers)
UpdateHeaders(headers) ==
    /\ session' = update_headers(session, headers)
    /\ sop' = [op |-> "update_headers", args |-> headers, before |-> session.headers,
               result |-> Returned(None),
               recent |-> MapUpdate(sop.recent, GivenBy(headers)),
               nullGiven |-> sop.nullGiven \/ \E i \in DOMAIN headers : headers[i][2] = None]
    /\ UNCHANGED <<bd, pr, hr, clientVars>>

\* client.update_bkapi_authorization(**auth)
UpdateAuthorization(auth) ==
    /\ session' = update_bkapi_authorization(session, auth).session
    /\ sop' = [sop EXCEPT !.op = "update_bkapi_authorization", !.args = auth,
                          !.before = session.auth,
                          !.result = update_bkapi_authorization(session, auth).result]
    /\ UNCHANGED <<bd, pr, hr, clientVars>>

NextSession == \E headers \in HeaderLists : UpdateHeaders(headers)

NextAuth == \E auth \in AuthFields : UpdateAuthorization(auth)

SpecAuth == InitAuth /\ [][NextAuth]_vars

SpecSession == InitSession /\ [][NextSession]_vars

-----------------------------------------------------------------------------
(* update_bkapi_authorization and update_headers *)

AuthorizationUpdated == sop.op = "update_bkapi_authorization"

\* the session held an authorization object that is no BKApiAuthorization
HeldOtherAuth == sop.before # None /\ sop.before.t # "BKApiAuthorization"

\* C14: update_bkapi_authorization raises TypeError and leaves session.auth as
\* it was when the session holds an authorization object that is no
\* BKApiAuthorization; otherwise session.auth is afterwards a
\* BKApiAuthorization with the given fields: a new one when the session held
\* none, the held one, its other fields kept, when it held one.
C14_AuthorizationUpdate ==
    AuthorizationUpdated =>
        IF HeldOtherAuth
        THEN /\ ~sop.result.ok
             /\ sop.result.exc.type = "TypeError"
             /\ session.auth = sop.before
        ELSE /\ sop.result.ok
             /\ session.auth # None
             /\ session.auth.t = "BKApiAuthorization"
             /\ \A k \in DOMAIN sop.args :
                   /\ k \in DOMAIN session.auth.fields
                   /\ session.auth.fields[k] = sop.args[k]
             /\ IF sop.before = None
                THEN /\ session.auth.id = "created"
                     /\ DOMAIN session.auth.fields = DOMAIN sop.args
                ELSE /\ session.auth.id = sop.before.id
                     /\ DOMAIN session.auth.fields
                           = DOMAIN sop.before.fields \cup DOMAIN sop.args
                     /\ \A k \in DOMAIN sop.before.fields \ DOMAIN sop.args :
                           session.auth.fields[k] = sop.before.fields[k]

\* the session held a BKApiAuthorization; the call changed one of its fields
\* and left another, and the object is still the one the session was given
C14_Witness ==
    /\ AuthorizationUpdated /\ ~HeldOtherAuth /\ sop.before # None
    /\ sop.before.id = "given" /\ session.auth.id = "given"
    /\ \E k \in DOMAIN sop.before.fields \cap DOMAIN sop.args :
          sop.before.fields[k] # sop.args[k] /\ session.auth.fields[k] = sop.args[k]
    /\ \E k \in DOMAIN sop.before.fields \ DOMAIN sop.args :
          session.auth.fields[k] = sop.before.fields[k]

\* C15: after update_headers calls with non-null values, the session's value
\* for a header name, case ignored, is one given by the most recent call that
\* supplied the name, and a name the last call did not supply is as it was
\* before that call.
C15_LatestHeaderWins ==
    (sop.op = "update_headers" /\ ~sop.nullGiven) =>
        /\ \A n \in DOMAIN sop.recent :
              /\ n \in DOMAIN session.headers
              /\ session.headers[n].value \in sop.recent[n]
        /\ \A n \in (DOMAIN sop.before \cup DOMAIN session.headers)
                       \ DOMAIN GivenBy(sop.args) :
              SameKey(sop.before, session.headers, n)

\* X-Token was v1; the last call gave x-token, in another case, as v2 and
\* nothing else: the session's value is v2 and Accept is as it was
C15_Witness ==
    /\ sop.op = "update_headers" /\ ~sop.nullGiven
    /\ "x-token" \in DOMAIN sop.before
    /\ sop.before["x-token"] = [key |-> "X-Token", value |-> Str("v1")]
    /\ sop.args = <<<<"x-token", Str("v2")>>>>
    /\ session.headers["x-token"].value = Str("v2")
    /\ "accept" \in DOMAIN session.headers
    /\ session.headers["accept"] = sop.before["accept"]

-----------------------------------------------------------------------------
(* handle_request: the hook and the transport call *)

Started(t) == call[t].state # "none"

\* the request context _get_request_context builds for the call
RequestOf(t) == build(endpoint[call[t].client], call[t].hooked.value)

\* C16: a handle_request call invokes session.handle at most once, exactly
\* once when the endpoint is set and the request context was built, and a
\* transport call that failed is not issued again.
C16_TransportAtMostOnce ==
    \A t \in Threads :
        Started(t) =>
            /\ Count(call[t].events, "handle") <= 1
            /\ (Ended(t) /\ call[t].hooked.ok /\ endpoint[call[t].client] # ""
                  /\ RequestOf(t).ok) => TransportEnded(t)
            /\ (Count(call[t].events, "handled") >= 1 /\ ~call[t].transport.ok) =>
                  /\ TransportEnded(t)
                  /\ pc[t] # "handle"

\* the transport raised a RequestException and the call ended with one
\* transport call made
C16_Witness ==
    /\ Ended("t1")
    /\ call["t1"].transport = Raised([type |-> "ConnectionError", response |-> None])
    /\ Count(call["t1"].events, "handle") = 1
    /\ Count(call["t1"].events, "handled") = 1

\* C17: a handle_request call dispatches the request-context hook exactly
\* once, before the endpoint check and before the transport call, and the
\* request handed to the transport is built from the context the hook returned.
C17_HookFirstAndEffective ==
    \A t \in Threads :
        Started(t) =>
            /\ Count(call[t].events, "hook") = 1
            /\ call[t].events[1] = "hook"
            /\ Count(call[t].events, "handle") >= 1 =>
                  /\ call[t].hooked.ok
                  /\ RequestOf(t).ok
                  /\ call[t].request = RequestOf(t).value

\* the hook returned a context that is not the caller's; the request handed to
\* the transport is built from it and differs from the one the caller's
\* context gives
C17_Witness ==
    /\ Started("t1")
    /\ call["t1"].hooked.ok
    /\ call["t1"].hooked.value # call["t1"].context
    /\ call["t1"].events = <<"hook", "get_request_context", "handle">>
    /\ call["t1"].request = RequestOf("t1").value
    /\ call["t1"].request # build(endpoint["c1"], call["t1"].context).value

-----------------------------------------------------------------------------
(* nested reuse scopes, a shared session, two threads *)

\* C19: whatever the sequence of __enter__ and __exit__ on a client, nested
\* scopes included, a handle_request call that reaches its finally block
\* closes the session exactly when no reuse scope of the client is open; after
\* an inner scope has exited while an outer one is open, calls do not close.
C19_CloseIffNoScopeOpen ==
    \A t \in Threads :
        (Ended(t) /\ call[t].hooked.ok) =>
            (Closes(t) = 1 <=> call[t].depth = 0)

\* a second client constructed with the session of the first: t1 drives c1,
\* with reuse scopes, t2 drives c2 outside any scope
ClientOf == [t \in Threads |-> IF t = "t1" THEN "c1" ELSE "c2"]

\* the contexts and transport outcomes of the calls that are interleaved
SharedContexts == {[method |-> Str("GET")], [data |-> Dict([a |-> 1])]}
SharedOutcomes ==
    {Returned(OkResponse), Raised([type |-> "ConnectionError", response |-> None])}

\* the calls of both threads, thread t on client c
Calls(t, c) ==
    \/ \E context \in SharedContexts : \E hooked \in HookOutcomes(context) :
          HandleRequest(t, c, "op1", context, hooked)
    \/ GetRequestContext(t)
    \/ \E outcome \in SharedOutcomes : SessionHandle(t, outcome)
    \/ Finally(t)

NextShared ==
    \/ Enter("t1", "c1")
    \/ \E args \in LeavingWith("t1") : Exit("t1", "c1", args)
    \/ \E t \in Threads : Calls(t, ClientOf[t])

SpecShared == Init /\ [][NextShared]_vars

\* two threads calling handle_request on one client, outside any scope
NextThreads == \E t \in Threads : Calls(t, "c1")

SpecThreads == Init /\ [][NextThreads]_vars

\* this step is the finally block of thread t's call invoking session.close
CallCloses(t) ==
    /\ pc[t] = "finally"
    /\ pc'[t] = "idle"
    /\ Count(call'[t].events, "close") = Count(call[t].events, "close") + 1

\* C18: while a client is inside a reuse scope, no handle_request call that
\* a second client holding the same session makes outside any scope invokes
\* session.close.
C18_NoCloseBySharingClient ==
    [][\A c \in Clients, t \in Threads :
          (scope[c].depth > 0 /\ call[t].client # c) => ~CallCloses(t)]_vars

\* C20: with two threads calling handle_request on one client outside a reuse
\* scope, no call invokes session.close while the other call's session.handle
\* is in flight.
C20_NoCloseWhileInFlight ==
    [][\A t, u \in Threads :
          (t # u /\ pc[u] = "handle" /\ call[u].client = call[t].client)
              => ~CallCloses(t)]_vars

====
